---- MODULE Spec2Model ----
(***************************************************************************)
(* Oil-spill simulation: the time-stepping driver find_and_plot            *)
(* (src/src/Simulation/solver.py), the configuration reader readConfig     *)
(* (src/config.py) and the main script's loop over configurations          *)
(* (src/main.py).                                                          *)
(*                                                                         *)
(* Numbers.  Times are integers counting 1e-6 time units, so that          *)
(* round(x, 6) is rounding to an integer and round(x, 4) is rounding to a  *)
(* multiple of 100.  Oil amounts are integers (fixed point).               *)
(* Python's None is the empty tuple <<>>, a present value v is <<v>>.      *)
(***************************************************************************)
EXTENDS Integers, Sequences, FiniteSets, TLC

(***************************************************************************)
(* Bounds of the model                                                     *)
(***************************************************************************)
NTriangles == 4
MaxIntervals == 3
MaxRuns == 2

(***************************************************************************)
(* Python values and arithmetic                                            *)
(***************************************************************************)
None == <<>>
Some(v) == <<v>>
Val(o) == o[1]

\* a % b for b # 0: the result has the sign of b
PyMod(a, b) == IF b > 0 THEN a % b ELSE -((-a) % (-b))

\* num / den (den > 0) rounded to the nearest integer, ties to even
RoundHalfEven(num, den) ==
    LET q == num \div den
        r == num % den
    IN  IF 2 * r < den THEN q
        ELSE IF 2 * r > den THEN q + 1
        ELSE IF q % 2 = 0 THEN q ELSE q + 1

\* round(x, 4) of a time held in 1e-6 units
TimeUnit == 100
Round4(t) == RoundHalfEven(t, TimeUnit) * TimeUnit

\* num / den truncated towards zero
Trunc(num, den) == IF num >= 0 THEN num \div den ELSE -((-num) \div den)

RECURSIVE SumOver(_, _)
SumOver(S, f) ==
    IF S = {} THEN 0
    ELSE LET c == CHOOSE c \in S : TRUE IN f[c] + SumOver(S \ {c}, f)

(***************************************************************************)
(* The mesh: one Vertex, one Line, then a closed strip of triangles, each  *)
(* sharing an edge with the next.  Cell k of the sequence has index k.     *)
(***************************************************************************)
NCells == NTriangles + 2
Indices == 0 .. NCells - 1
Kind(k) == IF k = 0 THEN "Vertex" ELSE IF k = 1 THEN "Line" ELSE "Triangle"
\* the test of the driver's loops: not a Vertex and not a Line
IsTransport(k) == Kind(k) # "Vertex" /\ Kind(k) # "Line"
Transport == {k \in Indices : IsTransport(k)}
\* x coordinate of a triangle's midpoint (the strip lies along the x axis)
Midpoint(k) == k - 1
Neighbors(k) == {n \in Transport : n = k - 1 \/ n = k + 1}

\* a freshly constructed cell
NewCell == [oil_amount |-> 0, oil_change |-> 0, geometry |-> FALSE]

(***************************************************************************)
(* Mesh operators.  mesh.py is not part of the sources at hand; these      *)
(* follow the specification's contract for them.                           *)
(***************************************************************************)
InitialOil == 100
FluxScale == 4000000

\* mesh.calculate(cell): area, midpoint and neighbours of one cell
Calculate(cs, k) == [cs EXCEPT ![k].geometry = TRUE]

\* mesh.initial_oil_distribution(start_point): all the oil on the triangle
\* whose midpoint is start_point, none elsewhere
InitialOilDistribution(cs, start_point) ==
    [k \in Indices |->
        IF IsTransport(k) /\ Midpoint(k) = start_point
        THEN [cs[k] EXCEPT !.oil_amount = InitialOil]
        ELSE cs[k]]

\* mesh.cells_within_area(x_area, y_area): the triangles whose midpoint lies
\* in the rectangle
CellsWithinArea(x_area) ==
    {k \in Transport : x_area[1] <= Midpoint(k) /\ Midpoint(k) <= x_area[2]}

\* the flux kernel: oil entering `to` from `from` over one step; antisymmetric,
\* zero between equal amounts
Flux(from, to, d) == Trunc((from - to) * d, FluxScale)

\* the oil_change mesh.calculate_change(cell, dt) computes for cell k: it reads
\* the oil_amount of k and of its neighbours
CalculateChange(cs, k, d) ==
    SumOver(Neighbors(k),
            [n \in Neighbors(k) |-> Flux(cs[n].oil_amount, cs[k].oil_amount, d)])

(***************************************************************************)
(* The restart file: text, one line per element of a sequence, a line a    *)
(* sequence of characters.                                                 *)
(***************************************************************************)
DigitChar == <<"0", "1", "2", "3", "4", "5", "6", "7", "8", "9">>
DigitOf(ch) == CHOOSE d \in 0 .. 9 : DigitChar[d + 1] = ch
IsDigit(ch) == \E d \in 0 .. 9 : DigitChar[d + 1] = ch

RECURSIVE Digits(_)
Digits(n) ==
    IF n < 10 THEN <<DigitChar[n + 1]>>
    ELSE Digits(n \div 10) \o <<DigitChar[(n % 10) + 1]>>

\* f"{n}" of a number
Format(n) == IF n < 0 THEN <<"-">> \o Digits(-n) ELSE Digits(n)

\* str.strip() of the trailing newline readlines() keeps
Strip(s) ==
    IF Len(s) > 0 /\ s[Len(s)] = "\n" THEN SubSeq(s, 1, Len(s) - 1) ELSE s

RECURSIVE DigitsValue(_)
DigitsValue(s) ==
    IF Len(s) = 0 THEN 0
    ELSE 10 * DigitsValue(SubSeq(s, 1, Len(s) - 1)) + DigitOf(s[Len(s)])

\* int(text) and float(text) accept an optional sign and digits
IsNumber(text) ==
    LET s == Strip(text)
        body == IF Len(s) > 0 /\ s[1] = "-" THEN Tail(s) ELSE s
    IN  Len(body) > 0 /\ \A p \in 1 .. Len(body) : IsDigit(body[p])
Parse(text) ==
    LET s == Strip(text)
    IN  IF s[1] = "-" THEN -DigitsValue(Tail(s)) ELSE DigitsValue(s)

\* line.split(";")
RECURSIVE Split(_)
Split(line) ==
    IF \A p \in 1 .. Len(line) : line[p] # ";" THEN <<line>>
    ELSE LET p == CHOOSE p \in 1 .. Len(line) :
                      line[p] = ";" /\ \A q \in 1 .. p - 1 : line[q] # ";"
         IN  <<SubSeq(line, 1, p - 1)>> \o Split(SubSeq(line, p + 1, Len(line)))

\* file.write(f"{end_time}\n") and file.write(f"{cell.index};{cell.oil_amount}\n")
TimeLine(t) == Format(t) \o <<"\n">>
CellLine(k, amount) == Format(k) \o <<";">> \o Format(amount) \o <<"\n">>
\* (mutant) only the triangles are written
SnapshotTextTriangles(cs, t) ==
    <<TimeLine(t)>> \o [p \in 1 .. NTriangles |-> CellLine(p + 1, cs[p + 1].oil_amount)]

SnapshotText(cs, t) ==
    <<TimeLine(t)>> \o [p \in 1 .. NCells |-> CellLine(p - 1, cs[p - 1].oil_amount)]

\* (mutant) the index of a line is taken to count from 1
RECURSIVE RestoreLinesFromOne(_, _)
RestoreLinesFromOne(cs, lines) ==
    IF Len(lines) = 0 THEN [error |-> None, cells |-> cs]
    ELSE LET parts == Split(Head(lines))
         IN  IF Len(parts) # 2 \/ ~IsNumber(parts[1]) \/ ~IsNumber(parts[2])
             THEN [error |-> Some("ValueError"), cells |-> cs]
             ELSE LET idx == Parse(parts[1]) - 1
                      k == IF idx < 0 THEN idx + NCells ELSE idx
                  IN  IF k \notin Indices
                      THEN [error |-> Some("IndexError"), cells |-> cs]
                      ELSE RestoreLinesFromOne(
                               [cs EXCEPT ![k].oil_amount = Parse(parts[2])],
                               Tail(lines))

\* the loop over lines[1:] of the restart file: each line is split at ";" into
\* an index and an amount, and the amount is stored in cells[int(index)]; a
\* negative index counts from the end of the list.  The result is the cells, or
\* the exception raised.
RECURSIVE RestoreLines(_, _)
RestoreLines(cs, lines) ==
    IF Len(lines) = 0 THEN [error |-> None, cells |-> cs]
    ELSE LET parts == Split(Head(lines))
         IN  IF Len(parts) # 2 \/ ~IsNumber(parts[1]) \/ ~IsNumber(parts[2])
             THEN [error |-> Some("ValueError"), cells |-> cs]
             ELSE LET idx == Parse(parts[1])
                      k == IF idx < 0 THEN idx + NCells ELSE idx
                  IN  IF k \notin Indices
                      THEN [error |-> Some("IndexError"), cells |-> cs]
                      ELSE RestoreLines(
                               [cs EXCEPT ![k].oil_amount = Parse(parts[2])],
                               Tail(lines))

\* the restartFile branch: start_time from line 0, the cells from the rest
ReadRestart(cs, lines) ==
    IF Len(lines) = 0 THEN [error |-> Some("IndexError"), cells |-> cs, start_time |-> None]
    ELSE IF ~IsNumber(lines[1])
    THEN [error |-> Some("ValueError"), cells |-> cs, start_time |-> None]
    ELSE LET r == RestoreLines(cs, Tail(lines))
         IN  [error |-> r.error, cells |-> r.cells, start_time |-> Some(Parse(lines[1]))]

(***************************************************************************)
(* The two phases of a step                                                *)
(***************************************************************************)
\* phase 1 on one cell: mesh.calculate_change(cell, dt)
ComputeCell(cs, k, d) == [cs EXCEPT ![k].oil_change = CalculateChange(cs, k, d)]

\* (mutant) phase 2 assigns where it should add
CommitCellAssign(cs, k) ==
    [cs EXCEPT ![k].oil_amount = cs[k].oil_change, ![k].oil_change = 0]

\* (mutant) phase 2 leaves the change in the buffer
CommitCellNoReset(cs, k) ==
    [cs EXCEPT ![k].oil_amount = cs[k].oil_amount + cs[k].oil_change]

\* phase 2 on one cell: oil_amount += oil_change; oil_change = 0
CommitCell(cs, k) ==
    [cs EXCEPT ![k].oil_amount = cs[k].oil_amount + cs[k].oil_change,
               ![k].oil_change = 0]

\* the cells of the mesh in array order
ArrayOrder == [p \in 1 .. NCells |-> p - 1]

\* the area-of-interest mapping: a dict keyed by time, in insertion order; an
\* assignment to a key already present replaces its value in place
HasKey(m, key) == \E p \in 1 .. Len(m) : m[p][1] = key
Lookup(m, key) == LET p == CHOOSE p \in 1 .. Len(m) : m[p][1] = key IN m[p][2]
SetItem(m, key, value) ==
    IF HasKey(m, key)
    THEN [p \in 1 .. Len(m) |-> IF m[p][1] = key THEN <<key, value>> ELSE m[p]]
    ELSE Append(m, <<key, value>>)

OilAmounts(cs) == [k \in Indices |-> cs[k].oil_amount]
OilInArea(cs, area) == SumOver(area, OilAmounts(cs))

(***************************************************************************)
(* Configuration files and readConfig                                      *)
(***************************************************************************)
MeshFile == "mesh.msh"
RestartName == "restartFile.txt"
\* the rectangle the main script passes as x_area
MainArea == <<1, 2>>

\* truth value of an optional number, and of an optional string
TruthyNum(o) == o # None /\ Val(o) # 0
TruthyStr(o) == o # None /\ Val(o) # ""

\* readConfig(name): the exception it raises, or none.  The replacements it
\* makes for an unset writeFrequency, restartFile or logName are assignments
\* to its local variables; the mapping it returns is the parsed file.
ReadConfig(cfg) ==
    LET t_start == IF cfg.t_start = None THEN 0 ELSE Val(cfg.t_start)
        raised ==
            IF ~cfg.exists THEN Some("FileNotFoundError")
            ELSE IF cfg.writeFrequency = None \/ cfg.restartFile = None
                    \/ cfg.logName = None
            THEN Some("KeyError")
            ELSE IF ~TruthyStr(cfg.filepath) \/ Val(cfg.filepath) # MeshFile
            THEN Some("FileNotFoundError")
            ELSE IF cfg.fish_area = None THEN Some("ValueError")
            ELSE IF cfg.initial_oil_area = None THEN Some("ValueError")
            ELSE IF ~TruthyNum(cfg.nSteps) \/ Val(cfg.nSteps) <= 0 THEN Some("ValueError")
            ELSE IF TruthyStr(cfg.restartFile) /\ t_start = 0 THEN Some("ValueError")
            ELSE IF cfg.t_end = None \/ Val(cfg.t_end) <= t_start THEN Some("ValueError")
            ELSE None
    IN  [error |-> raised, config |-> cfg]

\* the arguments the main script passes to find_and_plot for a configuration
MainArgs(cfg) ==
    [start_time |-> cfg.t_start,
     end_time |-> Val(cfg.t_end),
     intervals |-> Val(cfg.nSteps),
     write_frequency |-> Val(cfg.writeFrequency),
     start_point |-> Val(cfg.initial_oil_area),
     x_area |-> MainArea,
     restartFile |-> None,
     fast |-> 0]

(***************************************************************************)
(* Inputs                                                                  *)
(***************************************************************************)
\* the shortest span is one whose steps fall below the resolution of
\* round(..., 4); no time of these runs lies halfway between two multiples of
\* TimeUnit, where the rounding of a binary float is not the one of its decimal
EndTimes == {120, 1000000, 2000000}
WriteFrequencies == {0, 1, 2}
StartPoints == {1}
Areas == {MainArea, <<2, NTriangles>>}

GoodConfigs ==
    [exists : {TRUE},
     fish_area : {Some(MainArea)},
     initial_oil_area : {Some(1)},
     filepath : {Some(MeshFile)},
     nSteps : {Some(n) : n \in 1 .. MaxIntervals},
     t_start : {None, Some(0), Some(1000000)},
     t_end : {Some(1), Some(1000000), Some(2000000)},
     writeFrequency : {Some(w) : w \in WriteFrequencies},
     restartFile : {Some(""), Some(RestartName)},
     logName : {Some("logfile.log")}]

BaseConfig ==
    [exists |-> TRUE, fish_area |-> Some(MainArea), initial_oil_area |-> Some(1),
     filepath |-> Some(MeshFile), nSteps |-> Some(1), t_start |-> Some(0),
     t_end |-> Some(1000000), writeFrequency |-> Some(1),
     restartFile |-> Some(""), logName |-> Some("logfile.log")]

\* the base configuration with one thing wrong
BadConfigs ==
    {[BaseConfig EXCEPT !.exists = FALSE],
     [BaseConfig EXCEPT !.filepath = None],
     [BaseConfig EXCEPT !.filepath = Some("nowhere.msh")],
     [BaseConfig EXCEPT !.fish_area = None],
     [BaseConfig EXCEPT !.initial_oil_area = None],
     [BaseConfig EXCEPT !.nSteps = None],
     [BaseConfig EXCEPT !.nSteps = Some(0)],
     [BaseConfig EXCEPT !.nSteps = Some(-1)],
     [BaseConfig EXCEPT !.t_end = None],
     [BaseConfig EXCEPT !.t_end = Some(0)],
     [BaseConfig EXCEPT !.writeFrequency = None],
     [BaseConfig EXCEPT !.restartFile = None],
     [BaseConfig EXCEPT !.logName = None]}

Configs == GoodConfigs \cup BadConfigs

\* calls of find_and_plot that seed the mesh, and calls that resume
SeededArgs ==
    [start_time : {Some(0)}, end_time : EndTimes, intervals : 1 .. MaxIntervals,
     write_frequency : WriteFrequencies, start_point : StartPoints,
     x_area : Areas, restartFile : {None}, fast : {0}]
    \cup
    [start_time : {Some(0)}, end_time : EndTimes, intervals : 1 .. MaxIntervals,
     write_frequency : {1}, start_point : StartPoints,
     x_area : {MainArea}, restartFile : {None}, fast : {1}]
ResumedArgs ==
    [start_time : {Some(0)}, end_time : EndTimes, intervals : 1 .. MaxIntervals,
     write_frequency : WriteFrequencies, start_point : StartPoints,
     x_area : {MainArea}, restartFile : {Some(RestartName)}, fast : {0}]
DirectArgs == SeededArgs \cup ResumedArgs

(***************************************************************************)
(* State                                                                   *)
(***************************************************************************)
VARIABLES
    pc,             \* where the script or the driver stands
    runs,           \* calls of find_and_plot made so far
    config,         \* the configuration the main script is processing
    args,           \* the arguments of the running find_and_plot
    cells,          \* mesh.cells
    start_time, dt, current_time,
    cells_in_area, oil_area_time,
    steps,          \* the loop variable of the time loop
    i,              \* position of the running loop over the cells
    order,          \* the order in which phase 1 of this step visits the cells
    plots,          \* calls of the visualization hook
    videos,         \* calls of make_video
    disk,           \* the restart file in the results directory
    error,          \* the exception that ended the run, and where
    branch,         \* how the run got its oil: "seeded" or "restored"
    stepStart,      \* history: the cells as they stood when the step began
    nComputed,      \* history: calculate_change calls per cell in this run
    nCommitted,     \* history: commits per cell in this run
    nQueries,       \* history: cells_within_area calls in this run
    written,        \* history: what the run that wrote `disk` wrote, and how
    loopEntry,      \* history: the cells as they stood when the time loop began
    nWrites         \* history: writes of the restart file in this run

vars == <<pc, runs, config, args, cells, start_time, dt, current_time,
          cells_in_area, oil_area_time, steps, i, order, plots, videos, disk,
          error, branch, stepStart, nComputed, nCommitted, nQueries, written,
          loopEntry, nWrites>>

runVars == <<cells, start_time, dt, current_time, cells_in_area, oil_area_time,
             steps, i, order, plots, videos, branch, stepStart, nComputed,
             nCommitted, nQueries, loopEntry>>

NoArgs == [start_time |-> None, end_time |-> 0, intervals |-> 0,
           write_frequency |-> 0, start_point |-> 0, x_area |-> <<0, 0>>,
           restartFile |-> None, fast |-> 0]
Zeroes == [k \in Transport |-> 0]

\* the state of a run before it has done anything
FreshRun ==
    /\ cells = <<>>
    /\ start_time = None /\ dt = 0 /\ current_time = 0
    /\ cells_in_area = {} /\ oil_area_time = <<>>
    /\ steps = 0 /\ i = 0 /\ order = ArrayOrder
    /\ plots = <<>> /\ videos = 0
    /\ branch = "none" /\ stepStart = <<>>
    /\ nComputed = Zeroes /\ nCommitted = Zeroes /\ nQueries = 0
    /\ loopEntry = <<>> /\ nWrites = 0

Init ==
    /\ pc = "idle" /\ runs = 0 /\ config = None /\ args = NoArgs
    /\ FreshRun
    /\ disk = None /\ error = None /\ written = None

Raise(type) == pc' = "failed" /\ error' = Some([type |-> type, at |-> pc])

Ended == pc \in {"idle", "done", "failed"}

\* a run that has not done anything yet
StartRun(a) ==
    /\ args' = a
    /\ cells' = <<>>
    /\ start_time' = a.start_time /\ dt' = 0 /\ current_time' = 0
    /\ cells_in_area' = {} /\ oil_area_time' = <<>>
    /\ steps' = 0 /\ i' = 0 /\ order' = ArrayOrder
    /\ plots' = <<>> /\ videos' = 0
    /\ branch' = "none" /\ stepStart' = <<>>
    /\ nComputed' = Zeroes /\ nCommitted' = Zeroes /\ nQueries' = 0
    /\ loopEntry' = <<>> /\ nWrites' = 0

(***************************************************************************)
(* The main script: for config_file in config_files                        *)
(***************************************************************************)
\* config = readConfig(config_file)
MainReadConfig(cfg) ==
    /\ Ended
    /\ runs < MaxRuns
    /\ LET r == ReadConfig(cfg)
       IN  /\ StartRun(NoArgs)
           /\ config' = Some(r.config)
           /\ IF r.error # None
              THEN /\ pc' = "failed"
                   /\ error' = Some([type |-> Val(r.error), at |-> "readConfig"])
              ELSE pc' = "main" /\ error' = None
    /\ UNCHANGED <<runs, disk, written>>

\* solve.find_and_plot(mesh_path, start_time, ..., x_area, y_area)
MainCall ==
    /\ pc = "main"
    /\ StartRun(MainArgs(Val(config)))
    /\ pc' = "load"
    /\ runs' = runs + 1
    /\ UNCHANGED <<config, disk, error, written>>

(***************************************************************************)
(* find_and_plot                                                           *)
(***************************************************************************)
\* a call of find_and_plot from outside the main script
Call(a) ==
    /\ Ended
    /\ runs < MaxRuns
    /\ StartRun(a)
    /\ pc' = "load"
    /\ runs' = runs + 1
    /\ config' = None
    /\ error' = None
    /\ UNCHANGED <<disk, written>>

\* mesh = msh.Mesh(mesh_path, cell_factory); cells = mesh.cells
LoadMesh ==
    /\ pc = "load"
    /\ cells' = [k \in Indices |-> NewCell]
    /\ i' = 0
    /\ pc' = "geometry"
    /\ UNCHANGED <<runs, config, args, start_time, dt, current_time,
                   cells_in_area, oil_area_time, steps, order, plots, videos,
                   disk, error, branch, stepStart, nComputed, nCommitted,
                   nQueries, written,
                   loopEntry, nWrites>>

\* (mutant) mesh.calculate is called for every cell, whatever its kind
GeometryAll ==
    /\ pc = "geometry"
    /\ cells' = Calculate(cells, i)
    /\ IF i = NCells - 1
       THEN i' = 0 /\ pc' = "init_oil"
       ELSE i' = i + 1 /\ pc' = pc
    /\ UNCHANGED <<runs, config, args, start_time, dt, current_time,
                   cells_in_area, oil_area_time, steps, order, plots, videos,
                   disk, error, branch, stepStart, nComputed, nCommitted,
                   nQueries, written, loopEntry, nWrites>>

\* one pass of the loop that calls mesh.calculate
Geometry ==
    /\ pc = "geometry"
    /\ cells' = IF IsTransport(i) THEN Calculate(cells, i) ELSE cells
    /\ IF i = NCells - 1
       THEN i' = 0 /\ pc' = "init_oil"
       ELSE i' = i + 1 /\ pc' = pc
    /\ UNCHANGED <<runs, config, args, start_time, dt, current_time,
                   cells_in_area, oil_area_time, steps, order, plots, videos,
                   disk, error, branch, stepStart, nComputed, nCommitted,
                   nQueries, written,
                   loopEntry, nWrites>>

\* if restartFile: read it, else: mesh.initial_oil_distribution(start_point)
InitialState ==
    /\ pc = "init_oil"
    /\ IF TruthyStr(args.restartFile)
       THEN IF disk = None
            THEN /\ Raise("FileNotFoundError")
                 /\ UNCHANGED <<cells, start_time, branch>>
            ELSE LET r == ReadRestart(cells, Val(disk))
                 IN  IF r.error # None
                     THEN /\ Raise(Val(r.error))
                          /\ UNCHANGED <<cells, start_time, branch>>
                     ELSE /\ start_time' = r.start_time
                          /\ cells' = r.cells
                          /\ branch' = "restored"
                          /\ pc' = "dt"
                          /\ error' = error
       ELSE /\ cells' = InitialOilDistribution(cells, args.start_point)
            /\ branch' = "seeded"
            /\ pc' = "dt"
            /\ UNCHANGED <<start_time, error>>
    /\ UNCHANGED <<runs, config, args, dt, current_time, cells_in_area,
                   oil_area_time, steps, i, order, plots, videos, disk,
                   stepStart, nComputed, nCommitted, nQueries, written,
                   loopEntry, nWrites>>

\* the computation of dt, start_time forced to 0 when it equals end_time
ComputeDt ==
    /\ pc = "dt"
    /\ IF start_time = None
       THEN /\ Raise("TypeError")
            /\ UNCHANGED <<start_time, dt>>
       ELSE /\ IF Val(start_time) = args.end_time
               THEN /\ start_time' = Some(0)
                    /\ dt' = RoundHalfEven(args.end_time - 0, args.intervals)
               ELSE /\ start_time' = start_time
                    /\ dt' = RoundHalfEven(args.end_time - Val(start_time),
                                           args.intervals)
            /\ pc' = "area"
            /\ error' = error
    /\ UNCHANGED <<runs, config, args, cells, current_time, cells_in_area,
                   oil_area_time, steps, i, order, plots, videos, disk, branch,
                   stepStart, nComputed, nCommitted, nQueries, written,
                   loopEntry, nWrites>>

\* current_time = start_time; cells_in_area = ...; oil_area_time = {}
EnterLoop ==
    /\ pc = "area"
    /\ current_time' = Val(start_time)
    /\ cells_in_area' = CellsWithinArea(args.x_area)
    /\ nQueries' = nQueries + 1
    /\ oil_area_time' = <<>>
    /\ loopEntry' = cells
    /\ steps' = 0
    /\ pc' = IF args.intervals > 0 THEN "loop" ELSE "final_plot"
    /\ UNCHANGED <<runs, config, args, cells, start_time, dt, i, order, plots,
                   videos, disk, error, branch, stepStart, nComputed,
                   nCommitted, written, nWrites>>

\* what the visualization hook is called with
PlotCall ==
    [hook |-> IF args.fast = 1 THEN "plotting_mesh_cairo" ELSE "plotting_mesh",
     time |-> current_time,
     oil |-> OilAmounts(cells),
     area |-> cells_in_area,
     commits |-> nCommitted]

\* the head of one pass of the time loop: the plot every write_frequency
\* steps.  Phase 1 then visits the cells in the order ord.
LoopHeadWith(ord) ==
    /\ pc = "loop"
    /\ IF args.write_frequency = 0
       THEN /\ Raise("ZeroDivisionError")
            /\ UNCHANGED <<plots, order, stepStart, i>>
       ELSE /\ plots' = IF PyMod(steps, args.write_frequency) = 0
                        THEN Append(plots, PlotCall)
                        ELSE plots
            /\ order' = ord
            /\ stepStart' = cells
            /\ i' = 0
            /\ pc' = "compute"
            /\ error' = error
    /\ UNCHANGED <<runs, config, args, cells, start_time, dt, current_time,
                   cells_in_area, oil_area_time, steps, videos, disk, branch,
                   nComputed, nCommitted, nQueries, written,
                   loopEntry, nWrites>>

\* for cell in cells
LoopHead == LoopHeadWith(ArrayOrder)

\* (mutant) phase 1 commits each cell as soon as its change is computed
ComputeInterleaved ==
    /\ pc = "compute"
    /\ LET k == order[i + 1]
       IN  IF IsTransport(k)
           THEN /\ cells' = CommitCell(ComputeCell(cells, k, dt), k)
                /\ nComputed' = [nComputed EXCEPT ![k] = @ + 1]
                /\ nCommitted' = [nCommitted EXCEPT ![k] = @ + 1]
           ELSE UNCHANGED <<cells, nComputed, nCommitted>>
    /\ IF i = NCells - 1
       THEN i' = 0 /\ pc' = "advance"
       ELSE i' = i + 1 /\ pc' = pc
    /\ UNCHANGED <<runs, config, args, start_time, dt, current_time,
                   cells_in_area, oil_area_time, steps, order, plots, videos,
                   disk, error, branch, stepStart, nQueries, written,
                   loopEntry, nWrites>>

\* phase 1, one cell: calculate_change for a cell that is no Vertex and no Line
Compute ==
    /\ pc = "compute"
    /\ LET k == order[i + 1]
       IN  IF IsTransport(k)
           THEN /\ cells' = ComputeCell(cells, k, dt)
                /\ nComputed' = [nComputed EXCEPT ![k] = @ + 1]
           ELSE UNCHANGED <<cells, nComputed>>
    /\ IF i = NCells - 1
       THEN i' = 0 /\ pc' = "commit"
       ELSE i' = i + 1 /\ pc' = pc
    /\ UNCHANGED <<runs, config, args, start_time, dt, current_time,
                   cells_in_area, oil_area_time, steps, order, plots, videos,
                   disk, error, branch, stepStart, nCommitted, nQueries, written,
                   loopEntry, nWrites>>

\* phase 2, one cell: the commit for a cell that is no Vertex and no Line
Commit ==
    /\ pc = "commit"
    /\ IF IsTransport(i)
       THEN /\ cells' = CommitCell(cells, i)
            /\ nCommitted' = [nCommitted EXCEPT ![i] = @ + 1]
       ELSE UNCHANGED <<cells, nCommitted>>
    /\ IF i = NCells - 1
       THEN i' = 0 /\ pc' = "advance"
       ELSE i' = i + 1 /\ pc' = pc
    /\ UNCHANGED <<runs, config, args, start_time, dt, current_time,
                   cells_in_area, oil_area_time, steps, order, plots, videos,
                   disk, error, branch, stepStart, nComputed, nQueries, written,
                   loopEntry, nWrites>>

\* (mutant) the aggregate is summed over the amounts the step began with
AdvanceStale ==
    /\ pc = "advance"
    /\ current_time' = Round4(current_time + dt)
    /\ oil_area_time' = SetItem(oil_area_time, current_time',
                                OilInArea(stepStart, cells_in_area))
    /\ IF steps + 1 < args.intervals
       THEN steps' = steps + 1 /\ pc' = "loop"
       ELSE steps' = steps /\ pc' = "final_plot"
    /\ order' = ArrayOrder
    /\ UNCHANGED <<runs, config, args, cells, start_time, dt, cells_in_area,
                   i, plots, videos, disk, error, branch, stepStart,
                   nComputed, nCommitted, nQueries, written,
                   loopEntry, nWrites>>

\* the end of a pass: the time advances and the aggregate is recorded
Advance ==
    /\ pc = "advance"
    /\ current_time' = Round4(current_time + dt)
    /\ oil_area_time' = SetItem(oil_area_time, current_time',
                                OilInArea(cells, cells_in_area))
    /\ IF steps + 1 < args.intervals
       THEN steps' = steps + 1 /\ pc' = "loop"
       ELSE steps' = steps /\ pc' = "final_plot"
    /\ order' = ArrayOrder
    /\ UNCHANGED <<runs, config, args, cells, start_time, dt, cells_in_area,
                   i, plots, videos, disk, error, branch, stepStart,
                   nComputed, nCommitted, nQueries, written,
                   loopEntry, nWrites>>

\* (mutant) the plot after the loop is made only when the cadence asks for it
FinalPlotOnCadence ==
    /\ pc = "final_plot"
    /\ plots' = IF PyMod(args.intervals, args.write_frequency) = 0
                THEN Append(plots, PlotCall)
                ELSE plots
    /\ pc' = "snapshot"
    /\ UNCHANGED <<runs, config, args, cells, start_time, dt, current_time,
                   cells_in_area, oil_area_time, steps, i, order, videos, disk,
                   error, branch, stepStart, nComputed, nCommitted, nQueries, written,
                   loopEntry, nWrites>>

\* the plot after the loop
FinalPlot ==
    /\ pc = "final_plot"
    /\ plots' = Append(plots, PlotCall)
    /\ pc' = "snapshot"
    /\ UNCHANGED <<runs, config, args, cells, start_time, dt, current_time,
                   cells_in_area, oil_area_time, steps, i, order, videos, disk,
                   error, branch, stepStart, nComputed, nCommitted, nQueries, written,
                   loopEntry, nWrites>>

\* history of a snapshot: the run of n equal steps from the seed that leads to
\* it, when there is one
Lineage ==
    IF branch = "seeded"
    THEN Some([dt |-> dt, n |-> args.intervals, start_point |-> args.start_point,
               resumed |-> FALSE])
    ELSE IF written # None /\ Val(written).lineage # None
            /\ Val(Val(written).lineage).dt = dt
    THEN Some([Val(Val(written).lineage) EXCEPT !.n = @ + args.intervals,
                                                !.resumed = TRUE])
    ELSE None

\* the restart file is written: end_time, then a line per cell
WriteSnapshot ==
    /\ pc = "snapshot"
    /\ disk' = Some(SnapshotText(cells, args.end_time))
    /\ written' = Some([end_time |-> args.end_time, oil |-> OilAmounts(cells),
                        lineage |-> Lineage])
    /\ nWrites' = nWrites + 1
    /\ pc' = "video"
    /\ UNCHANGED <<runs, config, args, error>>
    /\ UNCHANGED runVars

\* if write_frequency: make_video(...); return oil_area_time
MakeVideo ==
    /\ pc = "video"
    /\ videos' = IF args.write_frequency # 0 THEN videos + 1 ELSE videos
    /\ pc' = "done"
    /\ UNCHANGED <<runs, config, args, cells, start_time, dt, current_time,
                   cells_in_area, oil_area_time, steps, i, order, plots, disk,
                   error, branch, stepStart, nComputed, nCommitted, nQueries, written,
                   loopEntry, nWrites>>

Driver ==
    \/ LoadMesh \/ Geometry \/ InitialState \/ ComputeDt \/ EnterLoop
    \/ Compute \/ Commit \/ Advance \/ FinalPlot \/ WriteSnapshot \/ MakeVideo

\* find_and_plot called with arguments of the caller's choice
Next == (\E a \in DirectArgs : Call(a)) \/ LoopHead \/ Driver
Spec == Init /\ [][Next]_vars

\* the main script
NextMain == (\E cfg \in Configs : MainReadConfig(cfg)) \/ MainCall \/ LoopHead \/ Driver
SpecMain == Init /\ [][NextMain]_vars

(***************************************************************************)
(* The driver with phase 1 of every step visiting the triangles in an      *)
(* order of the environment's choice (Vertex and Line first, as in the     *)
(* mesh).                                                                  *)
(***************************************************************************)
TransportPerms ==
    {f \in [Transport -> Transport] : \A a, b \in Transport : f[a] = f[b] => a = b}
Orders ==
    {[p \in 1 .. NCells |-> IF IsTransport(p - 1) THEN f[p - 1] ELSE p - 1] :
        f \in TransportPerms}
PermArgs ==
    [start_time : {Some(0)}, end_time : {1000000, 2000000},
     intervals : 1 .. MaxIntervals, write_frequency : {1}, start_point : StartPoints,
     x_area : {MainArea}, restartFile : {None}, fast : {0}]

LoopHeadPerm == \E ord \in Orders : LoopHeadWith(ord)
NextPerm == (\E a \in PermArgs : Call(a)) \/ LoopHeadPerm \/ Driver
SpecPerm == Init /\ [][NextPerm]_vars

(***************************************************************************)
(* The driver resuming from a restart file that is not the one a run wrote:*)
(* between two runs the file written by a run from the seed is replaced by *)
(* an edited copy.                                                         *)
(***************************************************************************)
\* a line "<k>;7", as a hand may put it in the file
EditedLine(k) == CellLine(k, 7)
\* the line of cell k in a restart file
LineOf(k) == k + 2
\* the edited copies of the text of a restart file
Edited(text) ==
    {\* the line of the last cell names an index past the end of the mesh
     [text EXCEPT ![LineOf(NCells - 1)] = EditedLine(NCells)],
     \* the line of cell 2 names the index -1
     [text EXCEPT ![LineOf(2)] = EditedLine(-1)],
     \* the line of cell 3 names cell 2 a second time
     [text EXCEPT ![LineOf(3)] = EditedLine(2)],
     \* the last line is missing
     SubSeq(text, 1, Len(text) - 1),
     \* one line more, for a cell of the mesh and for none
     Append(text, EditedLine(2)),
     Append(text, EditedLine(NCells)),
     \* every cell once, the Vertex with an amount of its own
     [text EXCEPT ![LineOf(0)] = EditedLine(0)]}

EditRestartFile ==
    /\ pc = "done" /\ branch = "seeded"
    /\ disk = Some(SnapshotText(cells, args.end_time))
    /\ \E text \in Edited(Val(disk)) : disk' = Some(text)
    /\ UNCHANGED <<pc, runs, config, args, error, written, nWrites>>
    /\ UNCHANGED runVars

EditArgs ==
    [start_time : {Some(0)}, end_time : {1000000}, intervals : 1 .. MaxIntervals,
     write_frequency : {1}, start_point : StartPoints, x_area : {MainArea},
     restartFile : {None}, fast : {0}]
    \cup
    [start_time : {Some(0)}, end_time : {2000000}, intervals : 1 .. MaxIntervals,
     write_frequency : {1}, start_point : StartPoints, x_area : {MainArea},
     restartFile : {Some(RestartName)}, fast : {0}]

NextEdit == (\E a \in EditArgs : Call(a)) \/ EditRestartFile \/ LoopHead \/ Driver
SpecEdit == Init /\ [][NextEdit]_vars

(***************************************************************************)
(* Properties                                                              *)
(***************************************************************************)
TotalOil(cs) == SumOver(Transport, OilAmounts(cs))
TotalChange(cs) == SumOver(Transport, [k \in Indices |-> cs[k].oil_change])
Moved == \E k \in Transport : cells[k].oil_amount # stepStart[k].oil_amount
AfterLoop == pc \in {"final_plot", "snapshot", "video", "done"}
InLoop == pc \in {"loop", "compute", "commit", "advance"}

\* one whole step of the driver on the cells cs, in array order
RECURSIVE ComputeAll(_, _, _)
ComputeAll(cs, S, d) ==
    IF S = {} THEN cs
    ELSE LET k == CHOOSE k \in S : \A m \in S : k <= m
         IN  ComputeAll(ComputeCell(cs, k, d), S \ {k}, d)
RECURSIVE CommitAll(_, _)
CommitAll(cs, S) ==
    IF S = {} THEN cs
    ELSE LET k == CHOOSE k \in S : \A m \in S : k <= m
         IN  CommitAll(CommitCell(cs, k), S \ {k})
RECURSIVE StepsFrom(_, _, _)
StepsFrom(cs, d, n) ==
    IF n = 0 THEN cs
    ELSE StepsFrom(CommitAll(ComputeAll(cs, Transport, d), Transport), d, n - 1)
\* the oil after one run of n steps of size d from the seed at start_point
SingleRun(start_point, d, n) ==
    OilAmounts(StepsFrom(
        InitialOilDistribution([k \in Indices |-> NewCell], start_point), d, n))

\* C1: within every step no oil_amount changes before calculate_change has run
\* for every transport-capable cell; a cell is committed only after phase 1 of
\* that step is over for all cells, and computed again only after phase 2 of the
\* step before is over for all cells.
C1_TwoPhaseOrdering ==
    /\ \A c, d \in Transport :
          /\ nCommitted[c] <= nComputed[d]
          /\ nComputed[c] <= nCommitted[d] + 1
    /\ pc = "compute" => OilAmounts(cells) = OilAmounts(stepStart)
    /\ pc = "commit" => \A c \in Transport : nComputed[c] = steps + 1
C1_Witness ==
    /\ pc = "commit" /\ steps = 1 /\ i = 4
    /\ nCommitted[2] = 2 /\ nCommitted[NCells - 1] = 1
    /\ Moved

\* C2: with the antisymmetric kernel on the closed strip, the changes computed
\* in phase 1 sum to 0, the total oil of the triangles stays what it was after
\* seeding or restoring, and a triangle that holds no oil and has no neighbour
\* holding oil still holds none after the step.
C2_Conservation ==
    /\ (pc = "commit" /\ i = 0) => TotalChange(cells) = 0
    /\ pc = "advance" => TotalOil(cells) = TotalOil(stepStart)
    /\ (pc \in {"dt", "area"} \/ InLoop \/ AfterLoop) =>
          TotalOil(cells) + (IF pc = "commit" THEN TotalChange(cells) ELSE 0) =
              IF branch = "seeded" THEN InitialOil
              ELSE SumOver(Transport, Val(written).oil)
    /\ pc = "advance" =>
          \A k \in Transport :
              (/\ stepStart[k].oil_amount = 0
               /\ \A n \in Neighbors(k) : stepStart[n].oil_amount = 0)
              => cells[k].oil_amount = 0
C2_Witness ==
    /\ pc = "advance" /\ steps = 1 /\ Moved
    /\ cells[NCells - 1].oil_amount = 0
    /\ cells[2].oil_amount < stepStart[2].oil_amount
    /\ TotalOil(cells) = InitialOil

\* C3: whatever the order in which phase 1 visits the triangles, the step
\* leaves every cell with the amount it began with plus the change computed
\* from the amounts the step began with.
C3_OrderIndependence ==
    pc = "advance" =>
        \A k \in Indices :
            /\ cells[k].oil_change = 0
            /\ cells[k].oil_amount =
                  IF IsTransport(k)
                  THEN stepStart[k].oil_amount + CalculateChange(stepStart, k, dt)
                  ELSE stepStart[k].oil_amount
C3_Witness ==
    /\ pc = "advance" /\ steps = 1 /\ Moved
    /\ order[3] = NCells - 1 /\ order[NCells] = 2

\* C4: a snapshot read back gives the resume time and every cell's oil_amount
\* as written, and a run resumed from the snapshot of a run from the seed, with
\* the same dt, ends with the oil_amount one run of all the steps ends with.
C4_RestartRoundTrip ==
    /\ (branch = "restored" /\ pc = "dt") =>
          /\ start_time = Some(Val(written).end_time)
          /\ OilAmounts(cells) = Val(written).oil
          /\ \A k \in Indices : cells[k].oil_change = 0
    /\ (pc \in {"video", "done"} /\ Val(written).lineage # None) =>
          LET l == Val(Val(written).lineage)
          IN  OilAmounts(cells) = SingleRun(l.start_point, l.dt, l.n)
C4_Witness ==
    /\ pc = "done" /\ branch = "restored"
    /\ Val(written).lineage # None
    /\ Val(Val(written).lineage).resumed
    /\ Val(Val(written).lineage).n = 2 * MaxIntervals
    /\ cells[3].oil_amount > 0
    /\ Val(start_time) > 0 /\ args.end_time > Val(start_time)

C6_RunReachesDone == ~(pc = "failed" /\ branch # "none")

\* C7: a run the main script makes for a configuration that names a
\* restartFile gets its oil and its start time from the snapshot.
C7_ConfiguredResumeRestores ==
    (/\ config # None
     /\ TruthyStr(Val(config).restartFile)
     /\ (pc \in {"dt", "area"} \/ InLoop \/ AfterLoop))
    => branch = "restored"

\* C8: a configuration fails in readConfig or not at all: once readConfig has
\* accepted it, the run does not fail on one of its values.
C8_ConfigErrorsAreEager == pc = "failed" => Val(error).at = "readConfig"

\* C9: in a run that completes, the visualization hook has been called exactly
\* once after the commits of the last step, with the final oil_amount of every
\* cell and the final current_time, by the time the snapshot is written.
FullCommits == [k \in Transport |-> args.intervals]
C9_FinalStateCaptured ==
    pc \in {"snapshot", "video", "done"} =>
        /\ Len(plots) >= 1
        /\ plots[Len(plots)].time = current_time
        /\ plots[Len(plots)].oil = OilAmounts(cells)
        /\ plots[Len(plots)].commits = FullCommits
        /\ Cardinality({p \in 1 .. Len(plots) : plots[p].commits = FullCommits}) = 1
C9_Witness ==
    /\ pc = "done"
    /\ args.write_frequency = 2 /\ args.intervals = 2
    /\ Len(plots) = 2
    /\ plots[1].oil # plots[2].oil

\* C10: write_frequency decides which plots are made and nothing else: no
\* value of it ends a run at the cadence test.
C10_CadenceNeverGates == ~(pc = "failed" /\ Val(error).at = "loop")

\* C11: a run that completes has written the restart file exactly once, after
\* the commits of its last step and not before: the first line reads as
\* end_time, and line p + 1 reads as the index p - 1 and the oil_amount cell
\* p - 1 holds after the last commit, one line for every cell of the mesh,
\* Vertex and Line included, in index order.
C11_SnapshotContent ==
    /\ pc \in {"load", "geometry", "init_oil", "dt", "area", "loop", "compute",
               "commit", "advance", "final_plot", "snapshot"} => nWrites = 0
    /\ pc \in {"video", "done"} =>
          /\ nWrites = 1
          /\ \A k \in Transport : nCommitted[k] = args.intervals
          /\ disk # None
          /\ LET text == Val(disk)
             IN  /\ Len(text) = NCells + 1
                 /\ IsNumber(text[1]) /\ Parse(text[1]) = args.end_time
                 /\ \A p \in 1 .. NCells :
                       LET parts == Split(Strip(text[p + 1]))
                       IN  /\ Len(parts) = 2
                           /\ IsNumber(parts[1]) /\ Parse(parts[1]) = p - 1
                           /\ IsNumber(parts[2])
                           /\ Parse(parts[2]) = cells[p - 1].oil_amount
C11_Witness ==
    /\ pc = "done" /\ runs = 2 /\ branch = "restored"
    /\ nWrites = 1 /\ args.intervals = 2
    /\ cells[3].oil_amount > 0
    /\ Val(disk)[1] = TimeLine(2000000)
    /\ Val(disk)[5] = CellLine(3, cells[3].oil_amount)

\* C12: the oil_change of a transport-capable cell is 0 when phase 1 of a step
\* begins, in the first step after seeding or restoring as in every later one,
\* and when phase 2 of a step is over; it differs from 0 only between the
\* cell's calculate_change and the cell's commit of the same step.
C12_ChangeBuffer ==
    cells # <<>> =>
        \A k \in Transport :
            /\ cells[k].oil_change # 0 =>
                  /\ pc \in {"compute", "commit"}
                  /\ nComputed[k] = steps + 1
                  /\ nCommitted[k] = steps
            /\ (pc = "compute" /\ i = 0) => cells[k].oil_change = 0
            /\ (pc = "advance" \/ AfterLoop) => cells[k].oil_change = 0
C12_Witness ==
    /\ pc = "commit" /\ branch = "restored" /\ steps = 1 /\ i = 3
    /\ nCommitted[2] = 2 /\ cells[2].oil_change = 0
    /\ nCommitted[3] = 1 /\ cells[3].oil_change # 0

\* C13: every step adds its own entry to the area-of-interest mapping: after n
\* steps the mapping has n entries, their keys strictly increasing in step
\* order, so that the mapping a run returns has `intervals` entries.
C13_OneRecordPerStep ==
    /\ ((pc = "loop" /\ steps > 0) \/ AfterLoop) =>
          Len(oil_area_time) = (IF pc = "loop" THEN steps ELSE args.intervals)
    /\ \A p, q \in 1 .. Len(oil_area_time) :
          p < q => oil_area_time[p][1] < oil_area_time[q][1]

\* C14: dt is (end_time - start_time) / intervals rounded to 6 decimals, where
\* start_time is the timestamp of the snapshot in a restored run and the
\* start_time passed in otherwise, and 0 in place of either when it equals
\* end_time; current_time starts from that start_time; and in a run of the main
\* script, whose configuration readConfig has checked for t_end > t_start, dt is
\* greater than 0 when the time loop is reached.
GivenStart ==
    IF branch = "restored" THEN Val(written).end_time ELSE Val(args.start_time)
C14_TimeStep ==
    (pc = "area" \/ InLoop \/ pc \in {"final_plot", "snapshot"}) =>
        /\ start_time = Some(IF GivenStart = args.end_time THEN 0 ELSE GivenStart)
        /\ dt = RoundHalfEven(args.end_time - Val(start_time), args.intervals)
        /\ (pc = "loop" /\ steps = 0) => current_time = Val(start_time)
        /\ dt > 0

\* C15: a run restores only from a restart file that has one line for every
\* cell of the mesh and for nothing else: a file with an index past the mesh, a
\* negative index, an index missing or twice, or with fewer or more lines than
\* the mesh has cells ends the run before its first step.
CellIndexAt(text, p) == Parse(Split(Strip(text[p]))[1])
IndicesMatch(text) ==
    /\ Len(text) = NCells + 1
    /\ {CellIndexAt(text, p) : p \in 2 .. Len(text)} = Indices
C15_RestartMismatchFatal ==
    (/\ branch = "restored"
     /\ pc \in {"dt", "area", "loop", "compute", "commit", "advance",
                "final_plot", "snapshot"})
    => IndicesMatch(Val(disk))

\* C16: when the time loop is over current_time is end_time, so that the time
\* the last plot is made for is the time the restart file is stamped with.
C16_TimeReachesEnd ==
    /\ AfterLoop => current_time = args.end_time
    /\ pc \in {"video", "done"} =>
          TimeLine(plots[Len(plots)].time) = Val(disk)[1]

\* C17: mesh.calculate has not been applied to a Vertex or a Line, and from the
\* entry of the time loop to the writing of the restart file every Vertex and
\* Line is as it was at the entry: the steps change the oil_amount and
\* oil_change of triangles only, no cell's geometry, and neither dt, start_time
\* nor the set of cells in the area of interest.
C17_NonTransportInert ==
    (InLoop \/ AfterLoop) =>
        /\ \A k \in Indices \ Transport :
              cells[k] = loopEntry[k] /\ ~cells[k].geometry
        /\ \A k \in Transport : cells[k].geometry = loopEntry[k].geometry
        /\ InLoop /\ pc # "loop" =>
              \A k \in Indices \ Transport : cells[k] = stepStart[k]
        /\ cells_in_area = CellsWithinArea(args.x_area)
        /\ dt = RoundHalfEven(args.end_time - Val(start_time), args.intervals)
C17_Witness ==
    /\ pc = "snapshot" /\ branch = "restored" /\ steps = 1
    /\ cells[0].oil_amount = 7 /\ loopEntry[0].oil_amount = 7
    /\ cells[1] = NewCell
    /\ cells[3].oil_amount # loopEntry[3].oil_amount

====
